---------------------------- MODULE Spec2Model ----------------------------
(***************************************************************************)
(* Financing Request Portal: the form controller (FinancingForm), its      *)
(* validation schema (financingSchema) and the submission request.         *)
(*                                                                         *)
(* The model follows the latest revision of the sources: the form of       *)
(* src/unnamed/part_003 lines 1-556 and the constants/schema of            *)
(* src/unnamed/part_005.  Earlier revisions of the same files are kept in  *)
(* src/src/store/context.ts, src/src/utils/Constants.ts and the second     *)
(* half of part_003.                                                       *)
(*                                                                         *)
(* Library behaviour the form relies on (react, react-hook-form, yup,      *)
(* dayjs, axios) is modelled by what the library does:                     *)
(*  - react-hook-form, mode 'onChange' with a resolver: every change event *)
(*    of a registered field runs the whole schema on the current values    *)
(*    and stores "no error at all" in formState.isValid; setValue without  *)
(*    shouldValidate writes the value and runs no validation; handleSubmit *)
(*    runs the whole schema again and calls onSubmit only when there is no *)
(*    error; reset() without arguments empties every field.                *)
(*  - react: the passive effect of a render caused by a discrete input     *)
(*    event is flushed before the next input event is handled, so no user  *)
(*    event is enabled while the effect is pending.                        *)
(*  - dayjs: dates are calendar days of a time zone without DST shifts.    *)
(***************************************************************************)
EXTENDS Integers, Sequences, FiniteSets, TLC

(***************************************************************************)
(* Bounds of the model.                                                    *)
(***************************************************************************)
\* how many times the calendar day may advance during a session
MaxTicks == 1
\* how many times onSubmit may be entered during a session
MaxSubmits == 2

(***************************************************************************)
(* Program constants (part_005, VALIDITY_PERIOD and FORM_LIMITS).          *)
(***************************************************************************)
MIN_YEARS == 1
MAX_YEARS == 3
MIN_DAYS_FROM_NOW == 15
DESCRIPTION_MAX_LENGTH == 150

\* the list without its last entry
OPEC_COUNTRIES_MissingVE ==
  {"DZ", "AO", "CG", "GQ", "GA", "IR", "IQ", "KW", "LY", "NG", "SA", "AE"}

OPEC_COUNTRIES ==
  {"DZ", "AO", "CG", "GQ", "GA", "IR", "IQ", "KW", "LY", "NG", "SA", "AE", "VE"}

(***************************************************************************)
(* Calendar dates.  A date is <<year, month, day>>; the value of an empty  *)
(* date input is NoDate.                                                   *)
(***************************************************************************)
NoDate == <<>>

IsLeap(y) == (y % 4 = 0 /\ y % 100 # 0) \/ y % 400 = 0

DaysInMonth(y, m) ==
  IF m = 2 THEN (IF IsLeap(y) THEN 29 ELSE 28)
  ELSE IF m \in {4, 6, 9, 11} THEN 30 ELSE 31

RECURSIVE DaysBeforeMonth(_, _)
DaysBeforeMonth(y, m) ==
  IF m = 1 THEN 0 ELSE DaysBeforeMonth(y, m - 1) + DaysInMonth(y, m - 1)

\* number of the day in the proleptic Gregorian calendar (the time value of
\* a dayjs object at day granularity)
DayNumber(d) ==
  LET y == d[1] - 1
  IN  365 * y + (y \div 4) - (y \div 100) + (y \div 400)
        + DaysBeforeMonth(d[1], d[2]) + d[3]

NextDay(d) ==
  IF d[3] < DaysInMonth(d[1], d[2]) THEN <<d[1], d[2], d[3] + 1>>
  ELSE IF d[2] < 12 THEN <<d[1], d[2] + 1, 1>>
  ELSE <<d[1] + 1, 1, 1>>

\* dayjs().add(n, 'day')
RECURSIVE AddDays(_, _)
AddDays(d, n) == IF n = 0 THEN d ELSE AddDays(NextDay(d), n - 1)

\* dayjs().add(n, 'month'): the day of the month is clamped to the length
\* of the target month
AddMonths(d, n) ==
  LET total == d[1] * 12 + (d[2] - 1) + n
      y == total \div 12
      m == (total % 12) + 1
      dim == DaysInMonth(y, m)
  IN  <<y, m, IF d[3] < dim THEN d[3] ELSE dim>>

\* a.isSameOrAfter(b, 'day')
IsSameOrAfter(a, b) == DayNumber(a) >= DayNumber(b)

(***************************************************************************)
(* dayjs monthDiff(a, b), the fractional number of months from a to b, as  *)
(* the fraction <<numerator, denominator>> with a positive denominator.    *)
(***************************************************************************)
MonthDiffCore(a, b) ==
  LET wholeMonthDiff == (b[1] - a[1]) * 12 + (b[2] - a[2])
      anchor == AddMonths(a, wholeMonthDiff)
      c == DayNumber(b) - DayNumber(anchor) < 0
      anchor2 == AddMonths(a, wholeMonthDiff + (IF c THEN -1 ELSE 1))
      p == DayNumber(b) - DayNumber(anchor)
      q == IF c THEN DayNumber(anchor) - DayNumber(anchor2)
                ELSE DayNumber(anchor2) - DayNumber(anchor)
  IN  <<-(wholeMonthDiff * q + p), q>>

monthDiff(a, b) ==
  IF a[3] < b[3]
    THEN LET r == MonthDiffCore(b, a) IN <<-r[1], r[2]>>
    ELSE MonthDiffCore(a, b)

\* calculateValidityPeriod(startDate, endDate) = end.diff(start, 'year', true)
\* = monthDiff(end, start) / 12, as a fraction <<numerator, denominator>>
calculateValidityPeriod(startDate, endDate) ==
  LET r == monthDiff(endDate, startDate) IN <<r[1], 12 * r[2]>>

\* Math.floor in the place of Math.round
MathRound_Floor(f) == f[1] \div f[2]

\* Math.round of a fraction: floor(x + 1/2)
MathRound(f) == (2 * f[1] + f[2]) \div (2 * f[2])

FracLess(f, n) == f[1] < n * f[2]
FracGreater(f, n) == f[1] > n * f[2]


(***************************************************************************)
(* Field values.  name, description, country and currency are strings;     *)
(* projectCode is the sequence of its characters; amount is the value of a *)
(* number input read with valueAsNumber: <<"NaN">> for an empty input and  *)
(* <<"num", n>> for the number n.                                          *)
(***************************************************************************)
NotANumber == <<"NaN">>
Num(n) == <<"num", n>>

UpperCaseLetters ==
  {"A", "B", "C", "D", "E", "F", "G", "H", "I", "J", "K", "L", "M",
   "N", "O", "P", "Q", "R", "S", "T", "U", "V", "W", "X", "Y", "Z"}
DigitsOneToNine == {"1", "2", "3", "4", "5", "6", "7", "8", "9"}

\* the pattern with the digit 0 allowed in the numeric group
MatchesProjectCode_ZeroAllowed(s) ==
  /\ Len(s) = 9
  /\ \A i \in 1..4 : s[i] \in UpperCaseLetters
  /\ s[5] = "-"
  /\ \A i \in 6..9 : s[i] \in DigitsOneToNine \cup {"0"}

\* /^[A-Z]{4}-[1-9]{4}$/
MatchesProjectCode(s) ==
  /\ Len(s) = 9
  /\ \A i \in 1..4 : s[i] \in UpperCaseLetters
  /\ s[5] = "-"
  /\ \A i \in 6..9 : s[i] \in DigitsOneToNine

\* the tests of the projectCode schema that fail on the text s
projectCodeErrors(s) ==
  (IF MatchesProjectCode(s) THEN {} ELSE {"matches"})
    \cup (IF Len(s) > 0 THEN {} ELSE {"required"})

(***************************************************************************)
(* financingSchema (part_005 lines 57-128), one predicate per field.       *)
(* now is the calendar day on which the schema is evaluated.               *)
(***************************************************************************)
nameRule(v) == Len(v.name) > 0

countryRule(v) == Len(v.country) > 0

projectCodeRule(v) == Len(v.projectCode) > 0 /\ MatchesProjectCode(v.projectCode)

descriptionRule(v) ==
  Len(v.description) > 0 /\ Len(v.description) <= DESCRIPTION_MAX_LENGTH

amountRule(v) == v.amount # NotANumber /\ v.amount[2] > 0

currencyRule(v) == Len(v.currency) > 0

\* startDateRule with the minimum anchored to the fixed day Day0 instead of
\* the day of evaluation
startDateRule_FixedAnchor(v, now) ==
  /\ v.startDate # NoDate
  /\ IsSameOrAfter(v.startDate, AddDays(<<2025, 7, 1>>, MIN_DAYS_FROM_NOW))

\* startDateRule that accepts only days after the minimum day
startDateRule_StrictlyAfter(v, now) ==
  /\ v.startDate # NoDate
  /\ DayNumber(v.startDate) > DayNumber(AddDays(now, MIN_DAYS_FROM_NOW))

\* the 'min-start-date' test
startDateRule(v, now) ==
  /\ v.startDate # NoDate
  /\ IsSameOrAfter(v.startDate, AddDays(now, MIN_DAYS_FROM_NOW))

\* endDateRule with the two limits excluded
endDateRule_ExclusiveBounds(v) ==
  /\ v.endDate # NoDate
  /\ v.startDate # NoDate
  /\ ~ (DayNumber(v.endDate) <= DayNumber(v.startDate))
  /\ LET validityPeriod == calculateValidityPeriod(v.startDate, v.endDate)
     IN  /\ FracGreater(validityPeriod, MIN_YEARS)
         /\ FracLess(validityPeriod, MAX_YEARS)

\* endDateRule without the upper limit
endDateRule_NoUpperLimit(v) ==
  /\ v.endDate # NoDate
  /\ v.startDate # NoDate
  /\ ~ (DayNumber(v.endDate) <= DayNumber(v.startDate))
  /\ LET validityPeriod == calculateValidityPeriod(v.startDate, v.endDate)
     IN  ~ FracLess(validityPeriod, MIN_YEARS)

\* the 'validity-period' test
endDateRule(v) ==
  /\ v.endDate # NoDate
  /\ v.startDate # NoDate
  /\ ~ (DayNumber(v.endDate) <= DayNumber(v.startDate))
  /\ LET validityPeriod == calculateValidityPeriod(v.startDate, v.endDate)
     IN  /\ ~ FracLess(validityPeriod, MIN_YEARS)
         /\ ~ FracGreater(validityPeriod, MAX_YEARS)

financingSchema(v, now) ==
  /\ nameRule(v)
  /\ countryRule(v)
  /\ projectCodeRule(v)
  /\ descriptionRule(v)
  /\ amountRule(v)
  /\ currencyRule(v)
  /\ startDateRule(v, now)
  /\ endDateRule(v)

(***************************************************************************)
(* Input domains: the values the user can put into each field.             *)
(***************************************************************************)
\* the day the session starts
Day0 == <<2025, 7, 1>>

Names == {"", "Jane Doe"}
CountryOptions == {"", "US", "SA"}
ProjectCodes ==
  {<<>>, <<"A", "B", "C", "D", "-", "1", "2", "3", "4">>}
Descriptions == {"", "test"}
Amounts == {NotANumber, Num(1000)}
CurrencyOptions == {"", "USD", "EUR"}
StartDates == {<<2025, 7, 16>>, <<2025, 7, 17>>}
EndDates == {<<2026, 7, 16>>, <<2028, 7, 17>>}

FieldNames ==
  {"name", "country", "projectCode", "description", "amount", "currency",
   "startDate", "endDate"}

FieldDomain(f) ==
  CASE f = "name" -> Names
    [] f = "country" -> CountryOptions
    [] f = "projectCode" -> ProjectCodes
    [] f = "description" -> Descriptions
    [] f = "amount" -> Amounts
    [] f = "currency" -> CurrencyOptions
    [] f = "startDate" -> StartDates
    [] f = "endDate" -> EndDates

\* the values of the form right after mount and after reset()
EmptyForm ==
  [name |-> "", country |-> "", projectCode |-> <<>>, description |-> "",
   amount |-> NotANumber, currency |-> "", startDate |-> NoDate,
   endDate |-> NoDate]

(***************************************************************************)
(* The error caught by onSubmit.  response is <<>> when no response was    *)
(* received and <<[status, message]>> otherwise, message being             *)
(* error.response.data?.message ("" when absent); request tells whether    *)
(* the request was sent; message is error.message; isAxiosError and        *)
(* isError are axios.isAxiosError(error) and error instanceof Error.       *)
(* axios.post rejects with axios errors only.                              *)
(***************************************************************************)
MSG_DEFAULT == "Failed to submit request. Please try again."
MSG_400 == "Invalid request data. Please check your information and try again."
MSG_401 == "Authentication required. Please log in and try again."
MSG_403 == "Access denied. You do not have permission to submit this request."
MSG_409 == "A request with this project code already exists. Please use a different project code."
MSG_422 == "Validation error. Please check your form data and try again."
MSG_500 == "Server error. Please try again later."
MSG_NETWORK == "Network error. Please check your internet connection and try again."
MSG_UNEXPECTED == "An unexpected error occurred. Please try again."
MSG_SUCCESS == "Financing request submitted successfully!"

MsgServerStatus(status) ==
  "Server error (" \o ToString(status) \o "). Please try again."

HttpError(status, dataMessage) ==
  [isAxiosError |-> TRUE, isError |-> TRUE,
   response |-> <<[status |-> status, message |-> dataMessage]>>,
   request |-> TRUE, message |-> "Request failed"]
NoResponseError ==
  [isAxiosError |-> TRUE, isError |-> TRUE, response |-> <<>>, request |-> TRUE,
   message |-> "Network Error"]
SetupError(message) ==
  [isAxiosError |-> TRUE, isError |-> TRUE, response |-> <<>>, request |-> FALSE,
   message |-> message]

\* the statuses with a case of their own and one status without
KnownStatuses == {400, 401, 403, 409, 422, 500}
OtherStatuses == {418}

\* the errors axios.post can reject with
SubmissionErrors ==
  {HttpError(s, "") : s \in KnownStatuses}
    \cup {HttpError(s, m) : s \in OtherStatuses, m \in {"", MSG_500}}
    \cup {NoResponseError}
    \cup {SetupError(m) : m \in {"", MSG_NETWORK}}

\* errorMessage with the text of case 400 pasted into case 422
errorMessage_Pasted422(error) ==
  IF error.isAxiosError
    THEN IF error.response # <<>>
           THEN LET status == error.response[1].status
                    data == error.response[1]
                IN  CASE status = 400 -> MSG_400
                      [] status = 401 -> MSG_401
                      [] status = 403 -> MSG_403
                      [] status = 409 -> MSG_409
                      [] status = 422 -> MSG_400
                      [] status = 500 -> MSG_500
                      [] OTHER -> IF data.message # "" THEN data.message
                                  ELSE MsgServerStatus(status)
           ELSE IF error.request
                  THEN MSG_NETWORK
                  ELSE IF error.message # "" THEN error.message
                       ELSE MSG_UNEXPECTED
    ELSE IF error.isError THEN error.message ELSE MSG_DEFAULT

\* onSubmit catch block, lines 106-153
errorMessage(error) ==
  IF error.isAxiosError
    THEN IF error.response # <<>>
           THEN LET status == error.response[1].status
                    data == error.response[1]
                IN  CASE status = 400 -> MSG_400
                      [] status = 401 -> MSG_401
                      [] status = 403 -> MSG_403
                      [] status = 409 -> MSG_409
                      [] status = 422 -> MSG_422
                      [] status = 500 -> MSG_500
                      [] OTHER -> IF data.message # "" THEN data.message
                                  ELSE MsgServerStatus(status)
           ELSE IF error.request
                  THEN MSG_NETWORK
                  ELSE IF error.message # "" THEN error.message
                       ELSE MSG_UNEXPECTED
    ELSE IF error.isError THEN error.message ELSE MSG_DEFAULT

\* apiData with the end date in the place of the start date
apiData_DateFromEndDate(data) ==
  [fullName |-> data.name,
   countryCode |-> data.country,
   projectCode |-> data.projectCode,
   description |-> data.description,
   amount |-> data.amount,
   currency |-> data.currency,
   date |-> data.endDate,
   validityPeriod |->
     MathRound(calculateValidityPeriod(data.startDate, data.endDate))]

\* onSubmit lines 80-95
apiData(data) ==
  [fullName |-> data.name,
   countryCode |-> data.country,
   projectCode |-> data.projectCode,
   description |-> data.description,
   amount |-> data.amount,
   currency |-> data.currency,
   date |-> data.startDate,
   validityPeriod |->
     MathRound(calculateValidityPeriod(data.startDate, data.endDate))]

(***************************************************************************)
(* Reference data (AppProvider, part_002).  A country of the country       *)
(* service is [name, cca2], name being <<name.common>>, or <<>> when the   *)
(* item has no name; the body of a response of the country service is      *)
(* [isArray, items].  A country of the form is [label, value].  The        *)
(* currencies are a set of <<code, name>> pairs.                           *)
(***************************************************************************)
\* the labels in the order of String.prototype.localeCompare
LabelOrder ==
  <<"Australia", "Brazil", "Canada", "China", "France", "Germany", "India",
    "Japan", "Nigeria", "Saudi Arabia", "United Kingdom", "United States">>

LabelRank(label) ==
  CHOOSE i \in 1..Len(LabelOrder) : LabelOrder[i] = label

\* a.localeCompare(b): negative, zero or positive
localeCompare(a, b) == LabelRank(a) - LabelRank(b)

\* one step of the sort: item put after the items that do not follow it
RECURSIVE InsertSorted(_, _)
InsertSorted(sorted, item) ==
  IF sorted = <<>> THEN <<item>>
  ELSE IF localeCompare(item.name[1], sorted[Len(sorted)].name[1]) >= 0
         THEN Append(sorted, item)
         ELSE Append(InsertSorted(SubSeq(sorted, 1, Len(sorted) - 1), item),
                     sorted[Len(sorted)])

\* data.sort((a, b) => a.name.common.localeCompare(b.name.common)), a stable
\* sort
RECURSIVE SortByName(_)
SortByName(items) ==
  IF items = <<>> THEN <<>>
  ELSE InsertSorted(SortByName(SubSeq(items, 1, Len(items) - 1)),
                    items[Len(items)])

\* .map(country => ({label: country.name.common, value: country.cca2}))
MapToOptions(items) ==
  [i \in 1..Len(items) |->
     [label |-> items[i].name[1], value |-> items[i].cca2]]

\* lines 33-41 throw a TypeError: the body has no sort method, or
\* a.name.common is read from an item without a name
SortThrows(body) ==
  \/ ~ body.isArray
  \/ \E i \in 1..Len(body.items) : body.items[i].name = <<>>

sortedCountries(body) == MapToOptions(SortByName(body.items))

\* lines 47-58
FallbackCountries ==
  <<[label |-> "United States", value |-> "US"],
    [label |-> "United Kingdom", value |-> "GB"],
    [label |-> "Germany", value |-> "DE"],
    [label |-> "France", value |-> "FR"],
    [label |-> "Canada", value |-> "CA"],
    [label |-> "Australia", value |-> "AU"],
    [label |-> "Japan", value |-> "JP"],
    [label |-> "China", value |-> "CN"],
    [label |-> "India", value |-> "IN"],
    [label |-> "Brazil", value |-> "BR"]>>

\* lines 71-82
FallbackCurrencies ==
  {<<"USD", "US Dollar">>, <<"EUR", "Euro">>, <<"GBP", "British Pound">>,
   <<"JPY", "Japanese Yen">>, <<"CAD", "Canadian Dollar">>,
   <<"AUD", "Australian Dollar">>, <<"CHF", "Swiss Franc">>,
   <<"CNY", "Chinese Yuan">>, <<"INR", "Indian Rupee">>,
   <<"BRL", "Brazilian Real">>}

MSG_COUNTRIES_FALLBACK == "Failed to load countries. Using fallback list."
MSG_CURRENCIES_FALLBACK == "Failed to load currencies. Using fallback list."
MSG_LOAD_FAILED == "Failed to load application data. Please refresh the page."

\* the bodies the country service can answer with: a list in the order of
\* the service, an empty list, a list with an item without a name, and a
\* JSON object in the place of the list
ServiceCountries ==
  <<[name |-> <<"United States">>, cca2 |-> "US"],
    [name |-> <<"Saudi Arabia">>, cca2 |-> "SA"],
    [name |-> <<"France">>, cca2 |-> "FR"]>>
CountryBodies ==
  {[isArray |-> TRUE, items |-> ServiceCountries],
   [isArray |-> TRUE, items |-> <<>>],
   [isArray |-> TRUE,
    items |-> <<[name |-> <<"Nigeria">>, cca2 |-> "NG"],
                [name |-> <<>>, cca2 |-> "SA"]>>],
   [isArray |-> FALSE, items |-> <<>>]}

\* the bodies the currency service can answer with
ServiceCurrencies ==
  {<<"USD", "United States Dollar">>, <<"EUR", "Euro">>,
   <<"NGN", "Nigerian Naira">>}
CurrencyBodies == {ServiceCurrencies, {<<"USD", "United States Dollar">>}}

\* the state of a request: pending, rejected, or fulfilled with a body
Pending == [status |-> "pending", body |-> <<>>]
Rejected == [status |-> "rejected", body |-> <<>>]
Fulfilled(body) == [status |-> "fulfilled", body |-> <<body>>]

CountryOutcomes == {Rejected} \cup {Fulfilled(b) : b \in CountryBodies}
CurrencyOutcomes == {Rejected} \cup {Fulfilled(b) : b \in CurrencyBodies}

(***************************************************************************)
(* State.                                                                  *)
(***************************************************************************)
VARIABLES
  values,         \* react-hook-form field values
  isValid,        \* formState.isValid
  isOpec,         \* useState isOpec
  isSubmitting,   \* useState isSubmitting
  effectPending,  \* the effect on [selectedCountry] is scheduled, not yet run
  today,          \* the current calendar day
  inflight,       \* the payloads posted and not yet settled
  toast,          \* the last toast shown: <<>>, or <<[type, message, error]>>
  posts,          \* number of calls of axios.post
  submits,        \* number of calls of onSubmit
  countries,      \* useState countries of AppProvider
  currencies,     \* useState currencies of AppProvider
  isLoading,      \* useState isLoading of AppProvider
  fetches,        \* the calls of fetchData: the state of their two requests
  devBuild,       \* the build is a development build
  notices         \* the messages AppProvider has shown with toast.error

formVars ==
  <<values, isValid, isOpec, isSubmitting, effectPending, today, inflight,
    toast, posts, submits>>

loaderVars == <<countries, currencies, isLoading, fetches, devBuild, notices>>

vars ==
  <<values, isValid, isOpec, isSubmitting, effectPending, today, inflight,
    toast, posts, submits, countries, currencies, isLoading, fetches,
    devBuild, notices>>

\* AppProvider after a production build has loaded both lists from their
\* services, the state in which the sessions on the form start
Loaded ==
  /\ countries = sortedCountries([isArray |-> TRUE, items |-> ServiceCountries])
  /\ currencies = ServiceCurrencies
  /\ isLoading = FALSE
  /\ fetches = <<[countries |->
                    Fulfilled([isArray |-> TRUE, items |-> ServiceCountries]),
                  currencies |-> Fulfilled(ServiceCurrencies)]>>
  /\ devBuild = FALSE
  /\ notices = {}

Init ==
  /\ values = EmptyForm
  /\ isValid = FALSE
  /\ isOpec = FALSE
  /\ isSubmitting = FALSE
  /\ effectPending = FALSE
  /\ today = Day0
  /\ inflight = <<>>
  /\ toast = <<>>
  /\ posts = 0
  /\ submits = 0
  /\ Loaded

\* the form is rendered once AppProvider is not loading (lines 59-73)
formShown == ~ isLoading

\* submitDisabled without the isSubmitting part
submitDisabled_IgnoresSubmitting == ~ isValid

\* the submit button, lines 535-537: disabled={isSubmitting || !isValid}
submitDisabled == isSubmitting \/ ~ isValid

\* FieldEditable with the currency <select> rendered whatever isOpec is
FieldEditable_AlwaysSelect(f) == TRUE

\* the currency <select> is rendered, and registered, only when !isOpec
\* (lines 410-443); every other field is always rendered
FieldEditable(f) == f = "currency" => ~ isOpec

\* onChange with an edit made during a submission posting the payload again
onChange_Resubmits(f, v) ==
  /\ formShown
  /\ ~ effectPending
  /\ FieldEditable(f)
  /\ v # values[f]
  /\ values' = [values EXCEPT ![f] = v]
  /\ isValid' = financingSchema(values', today)
  /\ effectPending' = (f = "country")
  /\ IF isSubmitting /\ inflight # <<>> /\ posts < MaxSubmits + 1
       THEN /\ inflight' = Append(inflight, Head(inflight))
            /\ posts' = posts + 1
       ELSE UNCHANGED <<inflight, posts>>
  /\ UNCHANGED <<isOpec, isSubmitting, today, toast, submits>>
  /\ UNCHANGED loaderVars

\* onChange with the pending payload reading the live field values
onChange_LivePayload(f, v) ==
  /\ formShown
  /\ ~ effectPending
  /\ FieldEditable(f)
  /\ v # values[f]
  /\ values' = [values EXCEPT ![f] = v]
  /\ isValid' = financingSchema(values', today)
  /\ effectPending' = (f = "country")
  /\ inflight' =
       [i \in 1..Len(inflight) |->
          [inflight[i] EXCEPT !.fullName = values'.name,
                              !.description = values'.description]]
  /\ UNCHANGED <<isOpec, isSubmitting, today, toast, posts, submits>>
  /\ UNCHANGED loaderVars

(***************************************************************************)
(* A change event of a registered field (react-hook-form onChange, mode    *)
(* 'onChange'): the value is stored, the schema is run on all values and   *)
(* formState.isValid is updated; a change of country re-renders with a new *)
(* selectedCountry, which schedules the effect.                            *)
(***************************************************************************)
onChange(f, v) ==
  /\ formShown
  /\ ~ effectPending
  /\ FieldEditable(f)
  /\ v # values[f]
  /\ values' = [values EXCEPT ![f] = v]
  /\ isValid' = financingSchema(values', today)
  /\ effectPending' = (f = "country")
  /\ UNCHANGED <<isOpec, isSubmitting, today, inflight, toast, posts, submits>>
  /\ UNCHANGED loaderVars

\* countryEffect without the call of setValue('currency', 'USD')
countryEffect_NoSetValue ==
  /\ effectPending
  /\ isOpec' = (values.country \in OPEC_COUNTRIES)
  /\ effectPending' = FALSE
  /\ UNCHANGED <<values, isValid, isSubmitting, today, inflight, toast, posts,
                 submits>>
  /\ UNCHANGED loaderVars

\* countryEffect clearing the currency when the country is not an OPEC one
countryEffect_ClearsCurrency ==
  /\ effectPending
  /\ LET isOpecCountry == values.country \in OPEC_COUNTRIES
     IN  /\ isOpec' = isOpecCountry
         /\ values' = IF isOpecCountry
                        THEN [values EXCEPT !.currency = "USD"]
                        ELSE [values EXCEPT !.currency = ""]
  /\ effectPending' = FALSE
  /\ UNCHANGED <<isValid, isSubmitting, today, inflight, toast, posts, submits>>
  /\ UNCHANGED loaderVars

\* countryEffect that raises the flag and never lowers it
countryEffect_FlagOnlyRaised ==
  /\ effectPending
  /\ LET isOpecCountry == values.country \in OPEC_COUNTRIES
     IN  /\ isOpec' = (isOpec \/ isOpecCountry)
         /\ values' = IF isOpecCountry
                        THEN [values EXCEPT !.currency = "USD"]
                        ELSE values
  /\ effectPending' = FALSE
  /\ UNCHANGED <<isValid, isSubmitting, today, inflight, toast, posts, submits>>
  /\ UNCHANGED loaderVars

(***************************************************************************)
(* useEffect on [selectedCountry, setValue], lines 50-57.  setValue is     *)
(* called without shouldValidate: formState.isValid is left as it is.      *)
(***************************************************************************)
countryEffect ==
  /\ effectPending
  /\ LET isOpecCountry == values.country \in OPEC_COUNTRIES
     IN  /\ isOpec' = isOpecCountry
         /\ values' = IF isOpecCountry
                        THEN [values EXCEPT !.currency = "USD"]
                        ELSE values
  /\ effectPending' = FALSE
  /\ UNCHANGED <<isValid, isSubmitting, today, inflight, toast, posts, submits>>
  /\ UNCHANGED loaderVars

(***************************************************************************)
(* Submit: handleSubmit(onSubmit), line 177.  handleSubmit runs the schema *)
(* on the current values; with errors onSubmit is not called.              *)
(***************************************************************************)
submitInvalid ==
  /\ formShown
  /\ ~ effectPending
  /\ ~ submitDisabled
  /\ ~ financingSchema(values, today)
  /\ UNCHANGED vars

\* submitValid with handleSubmit trusting formState.isValid instead of
\* running the schema again
submitValid_NoRevalidate ==
  /\ formShown
  /\ ~ effectPending
  /\ ~ submitDisabled
  /\ submits < MaxSubmits
  /\ isSubmitting' = TRUE
  /\ inflight' = Append(inflight, apiData(values))
  /\ posts' = posts + 1
  /\ submits' = submits + 1
  /\ UNCHANGED <<values, isValid, isOpec, effectPending, today, toast>>
  /\ UNCHANGED loaderVars

\* onSubmit up to the await of axios.post, lines 75-97
submitValid ==
  /\ formShown
  /\ ~ effectPending
  /\ ~ submitDisabled
  /\ financingSchema(values, today)
  /\ submits < MaxSubmits
  /\ isSubmitting' = TRUE
  /\ inflight' = Append(inflight, apiData(values))
  /\ posts' = posts + 1
  /\ submits' = submits + 1
  /\ UNCHANGED <<values, isValid, isOpec, effectPending, today, toast>>
  /\ UNCHANGED loaderVars

(***************************************************************************)
(* The request settles.  Success, lines 99-101 and finally: toast,         *)
(* reset(), setIsOpec(false), setIsSubmitting(false); the render after     *)
(* reset() sees selectedCountry change when a country was selected.        *)
(***************************************************************************)
\* settleSuccess without the call of reset()
settleSuccess_NoReset ==
  /\ ~ effectPending
  /\ inflight # <<>>
  /\ inflight' = Tail(inflight)
  /\ toast' = <<[type |-> "success", message |-> MSG_SUCCESS]>>
  /\ isOpec' = FALSE
  /\ isSubmitting' = FALSE
  /\ UNCHANGED <<values, isValid, effectPending, today, posts, submits>>
  /\ UNCHANGED loaderVars

settleSuccess ==
  /\ ~ effectPending
  /\ inflight # <<>>
  /\ inflight' = Tail(inflight)
  /\ toast' = <<[type |-> "success", message |-> MSG_SUCCESS]>>
  /\ values' = EmptyForm
  /\ isValid' = financingSchema(EmptyForm, today)
  /\ isOpec' = FALSE
  /\ effectPending' = (values.country # EmptyForm.country)
  /\ isSubmitting' = FALSE
  /\ UNCHANGED <<today, posts, submits>>
  /\ UNCHANGED loaderVars

\* settleError with setIsSubmitting(false) in the try block instead of finally
settleError_NoFinally(error) ==
  /\ ~ effectPending
  /\ inflight # <<>>
  /\ inflight' = Tail(inflight)
  /\ toast' = <<[type |-> "error", message |-> errorMessage(error),
                 error |-> error]>>
  /\ UNCHANGED <<values, isValid, isOpec, isSubmitting, effectPending, today,
                 posts, submits>>
  /\ UNCHANGED loaderVars

\* settleError with reset() called on failure as well
settleError_Reset(error) ==
  /\ ~ effectPending
  /\ inflight # <<>>
  /\ inflight' = Tail(inflight)
  /\ toast' = <<[type |-> "error", message |-> errorMessage(error),
                 error |-> error]>>
  /\ values' = EmptyForm
  /\ isValid' = financingSchema(EmptyForm, today)
  /\ effectPending' = (values.country # EmptyForm.country)
  /\ isSubmitting' = FALSE
  /\ UNCHANGED <<isOpec, today, posts, submits>>
  /\ UNCHANGED loaderVars

\* settleError posting the same payload again after a failure
settleError_Retry(error) ==
  /\ ~ effectPending
  /\ inflight # <<>>
  /\ IF posts < MaxSubmits + 1 /\ error.response = <<>>
       THEN /\ inflight' = Append(Tail(inflight), Head(inflight))
            /\ posts' = posts + 1
            /\ UNCHANGED <<toast, isSubmitting>>
       ELSE /\ inflight' = Tail(inflight)
            /\ toast' = <<[type |-> "error", message |-> errorMessage(error),
                           error |-> error]>>
            /\ isSubmitting' = FALSE
            /\ UNCHANGED posts
  /\ UNCHANGED <<values, isValid, isOpec, effectPending, today, submits>>
  /\ UNCHANGED loaderVars

\* failure, lines 102-158: catch and finally
settleError(error) ==
  /\ ~ effectPending
  /\ inflight # <<>>
  /\ inflight' = Tail(inflight)
  /\ toast' = <<[type |-> "error", message |-> errorMessage(error),
                 error |-> error]>>
  /\ isSubmitting' = FALSE
  /\ UNCHANGED <<values, isValid, isOpec, effectPending, today, posts, submits>>
  /\ UNCHANGED loaderVars

\* midnight passes
tick ==
  /\ ~ effectPending
  /\ DayNumber(today) - DayNumber(Day0) < MaxTicks
  /\ today' = NextDay(today)
  /\ UNCHANGED <<values, isValid, isOpec, isSubmitting, effectPending,
                 inflight, toast, posts, submits>>
  /\ UNCHANGED loaderVars

Next ==
  \/ \E f \in FieldNames : \E v \in FieldDomain(f) : onChange(f, v)
  \/ countryEffect
  \/ submitInvalid
  \/ submitValid
  \/ settleSuccess
  \/ \E error \in SubmissionErrors : settleError(error)
  \/ tick

Spec == Init /\ [][Next]_vars

(***************************************************************************)
(* Sessions on a filled form.  The form starts filled with values that     *)
(* pass every rule on Day0 (a state the session above reaches by eight     *)
(* edits) and the user then edits two of the fields over a wide range of   *)
(* inputs: the two dates in SpecDates, name and projectCode in SpecText.   *)
(***************************************************************************)
FilledForm ==
  [name |-> "Jane Doe", country |-> "US",
   projectCode |-> <<"A", "B", "C", "D", "-", "1", "2", "3", "4">>,
   description |-> "test", amount |-> Num(1000), currency |-> "EUR",
   startDate |-> <<2025, 7, 16>>, endDate |-> <<2026, 7, 16>>]

InitFilled ==
  /\ values = FilledForm
  /\ isValid = TRUE
  /\ isOpec = FALSE
  /\ isSubmitting = FALSE
  /\ effectPending = FALSE
  /\ today = Day0
  /\ inflight = <<>>
  /\ toast = <<>>
  /\ posts = 0
  /\ submits = 0
  /\ Loaded

\* the days a date input can hold: cleared, around the minimum start day,
\* around the first and the third anniversary, half years and leap days
StartDatesWide ==
  {NoDate, <<2025, 7, 15>>, <<2025, 7, 16>>, <<2025, 7, 17>>, <<2025, 7, 21>>,
   <<2028, 2, 29>>, <<2029, 2, 28>>}
EndDatesWide ==
  {NoDate, <<2025, 7, 10>>, <<2025, 7, 16>>, <<2026, 7, 15>>, <<2026, 7, 16>>,
   <<2026, 7, 17>>, <<2026, 7, 18>>, <<2027, 1, 16>>, <<2027, 7, 21>>,
   <<2028, 1, 16>>,
   <<2028, 7, 16>>, <<2028, 7, 17>>, <<2028, 7, 18>>, <<2029, 2, 28>>,
   <<2031, 2, 28>>, <<2031, 3, 1>>, <<2032, 2, 29>>}

\* the texts a name input can hold
NamesWide == {"", " ", "   ", " Jane ", "Jane Doe"}

\* the texts a projectCode input can hold
ProjectCodesWide ==
  {<<>>,
   <<"A", "B", "C", "D", "-", "1", "2", "3", "4">>,
   <<"Z", "Z", "Z", "Z", "-", "9", "9", "9", "9">>,
   <<"a", "b", "c", "d", "-", "1", "2", "3", "4">>,
   <<"A", "b", "C", "D", "-", "1", "2", "3", "4">>,
   <<"A", "B", "C", "D", "-", "1", "2", "0", "4">>,
   <<"A", "B", "C", "D", "-", "0", "0", "0", "0">>,
   <<"A", "B", "C", "-", "1", "2", "3", "4">>,
   <<"A", "B", "C", "D", "E", "-", "1", "2", "3", "4">>,
   <<"A", "B", "C", "D", "-", "1", "2", "3">>,
   <<"A", "B", "C", "D", "-", "1", "2", "3", "4", "5">>,
   <<"A", "B", "C", "D", "1", "2", "3", "4">>,
   <<"A", "B", "C", "D", " ", "1", "2", "3", "4">>}

DateFields == {"startDate", "endDate"}
TextFields == {"name", "projectCode"}

WideDomain(f) ==
  CASE f = "startDate" -> StartDatesWide
    [] f = "endDate" -> EndDatesWide
    [] f = "name" -> NamesWide
    [] f = "projectCode" -> ProjectCodesWide

NextDates ==
  \/ \E f \in DateFields : \E v \in WideDomain(f) : onChange(f, v)
  \/ submitInvalid
  \/ submitValid
  \/ settleError(NoResponseError)
  \/ tick

SpecDates == InitFilled /\ [][NextDates]_vars

NextText ==
  \/ \E f \in TextFields : \E v \in WideDomain(f) : onChange(f, v)
  \/ submitInvalid
  \/ submitValid
  \/ settleError(NoResponseError)
  \/ tick

SpecText == InitFilled /\ [][NextText]_vars

(***************************************************************************)
(* Sessions in which the user chooses among many countries: the thirteen   *)
(* of the OPEC list, the empty option and some other countries of the      *)
(* list of countries, and chooses the currency where the select is shown.  *)
(***************************************************************************)
CountryOptionsWide ==
  {"", "DZ", "AO", "CG", "GQ", "GA", "IR", "IQ", "KW", "LY", "NG", "SA", "AE",
   "VE", "US", "GB", "FR", "DE", "CD", "VN"}

NextOpec ==
  \/ \E v \in CountryOptionsWide : onChange("country", v)
  \/ \E v \in CurrencyOptions : onChange("currency", v)
  \/ countryEffect

SpecOpec == Init /\ [][NextOpec]_vars

(***************************************************************************)
(* AppProvider (part_002).  The effect of lines 20-93 calls fetchData at   *)
(* mount: once in a production build and, the root being rendered inside   *)
(* StrictMode (part_004 lines 7-13), twice in a row in a development       *)
(* build.  The calls made at mount are made before any response arrives.   *)
(***************************************************************************)
InitLoader ==
  /\ values = EmptyForm
  /\ isValid = FALSE
  /\ isOpec = FALSE
  /\ isSubmitting = FALSE
  /\ effectPending = FALSE
  /\ today = Day0
  /\ inflight = <<>>
  /\ toast = <<>>
  /\ posts = 0
  /\ submits = 0
  /\ countries = <<>>
  /\ currencies = {}
  /\ isLoading = TRUE
  /\ fetches = <<>>
  /\ devBuild \in BOOLEAN
  /\ notices = {}

\* the number of runs of the mount effect
MountRuns == IF devBuild THEN 2 ELSE 1

\* fetchData up to its await (lines 21-30)
fetchData ==
  /\ Len(fetches) < MountRuns
  /\ isLoading' = TRUE
  /\ fetches' = Append(fetches, [countries |-> Pending, currencies |-> Pending])
  /\ UNCHANGED <<countries, currencies, devBuild, notices>>
  /\ UNCHANGED formVars

\* fetchData after its await (lines 32-89), countriesResponse and
\* currenciesResponse being the two settled requests
fetchDataResume(countriesResponse, currenciesResponse) ==
  LET thrown == /\ countriesResponse.status = "fulfilled"
                /\ SortThrows(countriesResponse.body[1])
  IN  /\ countries' =
           IF countriesResponse.status = "fulfilled"
             THEN IF thrown THEN countries
                  ELSE sortedCountries(countriesResponse.body[1])
             ELSE FallbackCountries
      /\ currencies' =
           IF thrown THEN currencies
           ELSE IF currenciesResponse.status = "fulfilled"
                  THEN currenciesResponse.body[1]
                  ELSE FallbackCurrencies
      /\ notices' =
           notices \cup
             IF thrown THEN {MSG_LOAD_FAILED}
             ELSE (IF countriesResponse.status = "fulfilled" THEN {}
                   ELSE {MSG_COUNTRIES_FALLBACK})
                  \cup (IF currenciesResponse.status = "fulfilled" THEN {}
                        ELSE {MSG_CURRENCIES_FALLBACK})
      /\ isLoading' = FALSE

\* the country request of call i settles; Promise.allSettled resolves, and
\* fetchData goes on, when the currency request has settled before
countriesSettle(i, outcome) ==
  /\ Len(fetches) = MountRuns
  /\ i \in 1..Len(fetches)
  /\ fetches[i].countries = Pending
  /\ fetches' = [fetches EXCEPT ![i].countries = outcome]
  /\ IF fetches[i].currencies # Pending
       THEN fetchDataResume(outcome, fetches[i].currencies)
       ELSE UNCHANGED <<countries, currencies, notices, isLoading>>
  /\ UNCHANGED devBuild
  /\ UNCHANGED formVars

\* the currency request of call i settles
currenciesSettle(i, outcome) ==
  /\ Len(fetches) = MountRuns
  /\ i \in 1..Len(fetches)
  /\ fetches[i].currencies = Pending
  /\ fetches' = [fetches EXCEPT ![i].currencies = outcome]
  /\ IF fetches[i].countries # Pending
       THEN fetchDataResume(fetches[i].countries, outcome)
       ELSE UNCHANGED <<countries, currencies, notices, isLoading>>
  /\ UNCHANGED devBuild
  /\ UNCHANGED formVars

NextLoader ==
  \/ fetchData
  \/ \E i \in 1..2 : \E outcome \in CountryOutcomes : countriesSettle(i, outcome)
  \/ \E i \in 1..2 : \E outcome \in CurrencyOutcomes : currenciesSettle(i, outcome)

SpecLoader == InitLoader /\ [][NextLoader]_vars

(***************************************************************************)
(* Properties.                                                             *)
(***************************************************************************)
ToastIs(type) == toast # <<>> /\ toast[1].type = type

\* a step in which the in-flight request settles
Settles == Len(inflight') < Len(inflight)

\* C1, as stated: in every reachable form state, an OPEC originCountry
\* implies that the currency value is "USD".
C1_UsdInEveryState ==
  values.country \in OPEC_COUNTRIES => values.currency = "USD"

\* C1, amended: in every form state in which the effect of the last country
\* change has run, an OPEC originCountry implies that the currency value is
\* "USD" and the OPEC flag is set.
C1_UsdOnceEffectHasRun ==
  (~ effectPending /\ values.country \in OPEC_COUNTRIES)
    => (values.currency = "USD" /\ isOpec)

C1_Witness ==
  /\ ~ effectPending
  /\ values.country \in OPEC_COUNTRIES
  /\ values.currency = "USD"
  /\ toast # <<>>

\* C2: no payload posted to the submission endpoint has a countryCode of the
\* OPEC set and a currency other than "USD".
C2_NoOpecPayloadWithoutUsd ==
  \A i \in 1..Len(inflight) :
    inflight[i].countryCode \in OPEC_COUNTRIES => inflight[i].currency = "USD"

C2_Witness ==
  /\ inflight # <<>>
  /\ inflight[1].countryCode \in OPEC_COUNTRIES
  /\ inflight[1].currency = "USD"

\* C3, as stated: in every reachable state the submit action is enabled
\* exactly when every rule passes on the current field values and no
\* submission is in flight.
C3_CanSubmitIffValidAndIdle ==
  (~ submitDisabled) <=> (financingSchema(values, today) /\ inflight = <<>>)

\* C4: a step issues a POST only from a state in which every field of the
\* form passes every validation rule on that day.
C4_PostOnlyWhenValid ==
  [][posts' # posts => financingSchema(values, today)]_vars

C4_Witness ==
  /\ inflight # <<>>
  /\ posts = 1
  /\ financingSchema(values, today)

\* C5: the payload of every POST carries a start date on or after the day
\* of the POST plus 15 days, also when the day advanced after the validity
\* flag was last computed.
C5_PostedStartDateNotTooSoon ==
  [][posts' # posts =>
       /\ inflight' # <<>>
       /\ IsSameOrAfter(inflight'[Len(inflight')].date,
                        AddDays(today', MIN_DAYS_FROM_NOW))]_vars

\* the submit button is enabled although the start date has become too soon
C5_Witness ==
  /\ ~ submitDisabled
  /\ values.startDate # NoDate
  /\ today # Day0
  /\ ~ IsSameOrAfter(values.startDate, AddDays(today, MIN_DAYS_FROM_NOW))

\* C6: the in-flight flag is set exactly while a request is in flight: a
\* submit that posts sets it, and every settling of the request, success
\* or failure of any kind, clears it and shows the outcome.
C6_SubmittingUntilSettled ==
  /\ [](isSubmitting <=> inflight # <<>>)
  /\ [][/\ posts' # posts => (~ isSubmitting /\ isSubmitting')
        /\ Settles => (isSubmitting /\ ~ isSubmitting' /\ inflight' = <<>>
                         /\ toast' # <<>>
                         /\ toast'[1].type \in {"success", "error"})]_vars

C6_Witness ==
  /\ ToastIs("error")
  /\ ~ isSubmitting
  /\ inflight = <<>>
  /\ ~ submitDisabled

\* C7: the step in which a submission succeeds leaves every field at its
\* empty initial value and the controller out of Submitting.
C7_SuccessClearsAllFields ==
  [][(Settles /\ toast' # <<>> /\ toast'[1].type = "success")
        => (values' = EmptyForm /\ ~ isSubmitting')]_vars

C7_Witness ==
  /\ ToastIs("success")
  /\ values = EmptyForm
  /\ posts > 0
  /\ ~ isSubmitting

\* C8: the step in which a submission fails shows an error toast (for HTTP
\* 409 the duplicate-project-code message) and changes no field value.
C8_FailureRetainsFields ==
  [][(Settles /\ toast' # <<>> /\ toast'[1].type = "error")
        => /\ values' = values
           /\ toast'[1].error \in SubmissionErrors
           /\ (toast'[1].error = HttpError(409, "")
                 => toast'[1].message = MSG_409)]_vars

C8_Witness ==
  /\ ToastIs("error")
  /\ toast[1].error = HttpError(409, "")
  /\ toast[1].message = MSG_409
  /\ values # EmptyForm
  /\ financingSchema(values, today)

\* the classification of submission failures of the specification
ErrorKind(error) ==
  IF error.response # <<>>
    THEN LET status == error.response[1].status
         IN  CASE status = 400 -> "BadRequest"
               [] status = 401 -> "Unauthorized"
               [] status = 403 -> "Forbidden"
               [] status = 409 -> "Conflict"
               [] status = 422 -> "UnprocessableEntity"
               [] status = 500 -> "ServerError"
               [] OTHER -> "UnknownStatus"
    ELSE IF error.request THEN "NetworkUnreachable" ELSE "ClientFault"

\* the fixed message of the kinds that have one
KindMessage(kind) ==
  CASE kind = "BadRequest" -> MSG_400
    [] kind = "Unauthorized" -> MSG_401
    [] kind = "Forbidden" -> MSG_403
    [] kind = "Conflict" -> MSG_409
    [] kind = "UnprocessableEntity" -> MSG_422
    [] kind = "ServerError" -> MSG_500
    [] kind = "NetworkUnreachable" -> MSG_NETWORK

\* the error carries a message of its own that the toast passes through
SuppliesMessage(error) ==
  \/ ErrorKind(error) = "UnknownStatus" /\ error.response[1].message # ""
  \/ ErrorKind(error) = "ClientFault" /\ error.message # ""

\* C9, as stated: the message shown for a failure differs from the message
\* of every failure of another kind.
C9_MessagesDistinctPerKind ==
  ToastIs("error") =>
    \A e \in SubmissionErrors :
      ErrorKind(e) # ErrorKind(toast[1].error)
        => errorMessage(e) # toast[1].message

\* C9, amended: a failure of kind BadRequest, Unauthorized, Forbidden,
\* Conflict, UnprocessableEntity, ServerError or NetworkUnreachable shows
\* the fixed message of its kind; UnknownStatus and ClientFault show the
\* message the response body or the error supplies and a default text when
\* none is supplied; the message shown differs from the message of every
\* failure of another kind as long as neither failure supplies its message.
C9_MessagesDistinctUnlessSupplied ==
  ToastIs("error") =>
    LET error == toast[1].error
        kind == ErrorKind(error)
    IN  /\ kind \notin {"UnknownStatus", "ClientFault"}
             => toast[1].message = KindMessage(kind)
        /\ (kind = "UnknownStatus" /\ ~ SuppliesMessage(error))
             => toast[1].message = MsgServerStatus(error.response[1].status)
        /\ (kind = "UnknownStatus" /\ SuppliesMessage(error))
             => toast[1].message = error.response[1].message
        /\ (kind = "ClientFault" /\ ~ SuppliesMessage(error))
             => toast[1].message = MSG_UNEXPECTED
        /\ (kind = "ClientFault" /\ SuppliesMessage(error))
             => toast[1].message = error.message
        /\ ~ SuppliesMessage(error) =>
             \A e \in SubmissionErrors :
               (ErrorKind(e) # kind /\ ~ SuppliesMessage(e))
                 => errorMessage(e) # toast[1].message

C9_Witness ==
  /\ ToastIs("error")
  /\ ErrorKind(toast[1].error) = "UnprocessableEntity"
  /\ toast[1].message = MSG_422

\* C10: every call of onSubmit issues exactly one POST and no other step
\* issues one; in particular the step in which a request fails issues none.
C10_OnePostPerSubmit ==
  /\ [](posts = submits)
  /\ [][/\ submits' # submits => (submits' = submits + 1 /\ posts' = posts + 1)
        /\ submits' = submits => posts' = posts
        /\ Settles => posts' = posts]_vars

C10_Witness ==
  /\ ToastIs("error")
  /\ inflight = <<>>
  /\ posts = 1
  /\ submits = 1

\* C11, as stated: every step that changes a field value, a user edit and
\* the forced write of currency alike, leaves the validity flag equal to
\* the conjunction of all rules on the new field values.
C11_FlagFollowsEveryChange ==
  [][values' # values => isValid' = financingSchema(values', today')]_vars

LowerCaseLetters ==
  {"a", "b", "c", "d", "e", "f", "g", "h", "i", "j", "k", "l", "m",
   "n", "o", "p", "q", "r", "s", "t", "u", "v", "w", "x", "y", "z"}

\* the positions of the hyphens of the text s
Hyphens(s) == {i \in 1..Len(s) : s[i] = "-"}

\* four uppercase letters, a hyphen, four digits 1..9
WellFormedCode(s) ==
  /\ Len(s) = 4 + 1 + 4
  /\ Hyphens(s) = {5}
  /\ \A i \in 1..4 : s[i] \in UpperCaseLetters
  /\ \A i \in 6..9 : s[i] \in {"1", "2", "3", "4", "5", "6", "7", "8", "9"}

\* a lowercase letter, a 0 in the numeric group, a segment of the wrong
\* length, or no hyphen
MalformedCode(s) ==
  \/ \E i \in 1..Len(s) : s[i] \in LowerCaseLetters
  \/ \E h \in Hyphens(s) : \E i \in (h + 1)..Len(s) : s[i] = "0"
  \/ \E h \in Hyphens(s) : h - 1 # 4 \/ Len(s) - h # 4
  \/ Hyphens(s) = {}

\* C14: a projectCode of four uppercase letters, a hyphen and four digits
\* 1..9 passes its rule with no error; a projectCode with a lowercase
\* letter, a digit 0 in the numeric group, a segment of the wrong length or
\* no hyphen fails the rule with the format error, makes an edit leave the
\* form invalid, and is never posted.
C14_ProjectCodeFormat ==
  /\ [](/\ WellFormedCode(values.projectCode) =>
             /\ projectCodeRule(values)
             /\ projectCodeErrors(values.projectCode) = {}
        /\ MalformedCode(values.projectCode) =>
             /\ ~ projectCodeRule(values)
             /\ "matches" \in projectCodeErrors(values.projectCode)
        /\ \A i \in 1..Len(inflight) :
             ~ MalformedCode(inflight[i].projectCode))
  /\ [][(values' # values /\ MalformedCode(values'.projectCode))
          => ~ isValid']_vars

C14_Witness ==
  /\ inflight # <<>>
  /\ inflight[1].projectCode = <<"Z", "Z", "Z", "Z", "-", "9", "9", "9", "9">>
  /\ values.projectCode = <<"A", "B", "C", "D", "-", "1", "2", "0", "4">>
  /\ projectCodeErrors(values.projectCode) = {"matches"}
  /\ ~ isValid

\* the texts that are empty or made of whitespace only
BlankName(s) == s \in {"", " ", "   "}

\* C15, as stated: a name that is empty or whitespace-only fails the name
\* rule, a form with such a name is never valid, and no posted payload
\* carries such a name.
C15_BlankNameNeverValidNorSubmitted ==
  /\ BlankName(values.name) => (~ nameRule(values) /\ ~ isValid)
  /\ \A i \in 1..Len(inflight) : ~ BlankName(inflight[i].fullName)

\* C16: the validityPeriod of every posted payload is the integer nearest
\* to the fractional number of years between the start date and the end
\* date of the form, a half rounding up; a start date 20 days ahead with an
\* end date two years later gives 2.
C16_ValidityPeriodIsNearestInteger ==
  [][posts' # posts =>
       LET payload == inflight'[Len(inflight')]
           start == values.startDate
           years == calculateValidityPeriod(start, values.endDate)
           n == payload.validityPeriod
       IN  /\ years[2] > 0
           /\ (2 * n - 1) * years[2] <= 2 * years[1]
           /\ 2 * years[1] < (2 * n + 1) * years[2]
           /\ (/\ DayNumber(start) = DayNumber(today) + 20
               /\ values.endDate = <<start[1] + 2, start[2], start[3]>>)
                => n = 2]_vars

C16_Witness ==
  /\ inflight # <<>>
  /\ inflight[1].date = <<2025, 7, 16>>
  /\ values.endDate = <<2027, 1, 16>>
  /\ LET years == calculateValidityPeriod(inflight[1].date, values.endDate)
     IN  2 * years[1] = 3 * years[2]
  /\ inflight[1].validityPeriod = 2

\* the copies the transformation makes, payload being the body of the POST
\* built from the form values v
CopiedFieldByField(payload, v) ==
  /\ payload.fullName = v.name
  /\ payload.countryCode = v.country
  /\ payload.projectCode = v.projectCode
  /\ payload.description = v.description
  /\ payload.amount = v.amount
  /\ payload.currency = v.currency
  /\ payload.date = v.startDate

\* C17, as stated: the payload of every POST copies name, country,
\* projectCode, description, amount, currency and the start date unchanged,
\* and drops no other form value: the end date of the form is the only end
\* date from which the payload results.
C17_NothingAlteredOrDropped ==
  [][posts' # posts =>
       LET payload == inflight'[Len(inflight')]
       IN  /\ CopiedFieldByField(payload, values)
           /\ \A e \in EndDatesWide \ {NoDate} :
                apiData([values EXCEPT !.endDate = e]) = payload
                  => e = values.endDate]_vars

\* C17, amended: the payload of every POST copies name, country,
\* projectCode, description, amount, currency and the start date unchanged
\* and has these seven fields and validityPeriod only; the end date is not
\* carried over.
C17_SevenFieldsCopied ==
  [][posts' # posts =>
       LET payload == inflight'[Len(inflight')]
       IN  /\ CopiedFieldByField(payload, values)
           /\ DOMAIN payload =
                {"fullName", "countryCode", "projectCode", "description",
                 "amount", "currency", "date", "validityPeriod"}]_vars

C17_Witness ==
  /\ inflight # <<>>
  /\ CopiedFieldByField(inflight[1], values)
  /\ inflight[1].date = <<2025, 7, 17>>
  /\ values.endDate = <<2026, 7, 17>>
  /\ inflight[1] = apiData([values EXCEPT !.endDate = <<2026, 7, 18>>])

\* the thirteen codes of the list of OPEC members
ThirteenCodes ==
  {"DZ", "AO", "CG", "GQ", "GA", "IR", "IQ", "KW", "LY", "NG", "SA", "AE", "VE"}

\* C18: each run of the controller's effect sets the OPEC flag to true
\* exactly when the selected country is one of DZ, AO, CG, GQ, GA, IR, IQ,
\* KW, LY, NG, SA, AE, VE, and for such a country leaves the currency
\* "USD" whatever it was before; the currency then stays "USD" for as long
\* as the country stays selected.
C18_OpecFlagAndUsd ==
  /\ [][(effectPending /\ ~ effectPending') =>
          /\ isOpec' <=> values.country \in ThirteenCodes
          /\ values.country \in ThirteenCodes => values'.currency = "USD"]_vars
  /\ []((~ effectPending /\ values.country \in ThirteenCodes)
          => values.currency = "USD")

C18_Witness ==
  /\ ~ effectPending
  /\ values.country = "VE"
  /\ isOpec
  /\ values.currency = "USD"

\* some request of some call of fetchData has not settled
RequestOutstanding ==
  \E i \in 1..Len(fetches) :
    fetches[i].countries = Pending \/ fetches[i].currencies = Pending

\* C19, as stated: the loading flag is true from the moment the load is
\* invoked for as long as a country request or a currency request is
\* outstanding, and false once the load was invoked and every request has
\* settled; the form is not shown while a request is outstanding.
C19_LoadingUntilBothSettled ==
  /\ RequestOutstanding => isLoading
  /\ (fetches # <<>> /\ ~ RequestOutstanding) => ~ isLoading
  /\ formShown => ~ RequestOutstanding

\* the step completes call i of fetchData: its last pending request settles
Completes(i) ==
  /\ fetches[i].countries = Pending \/ fetches[i].currencies = Pending
  /\ fetches'[i].countries # Pending
  /\ fetches'[i].currencies # Pending

\* the options of the list
OptionsOf(list) == {list[k] : k \in 1..Len(list)}

\* the countries of a body of the country service, as options
FetchedCountries(body) ==
  {[label |-> body.items[k].name[1], value |-> body.items[k].cca2] :
     k \in {j \in 1..Len(body.items) : body.items[j].name # <<>>}}

\* C20, as stated: when a call of fetchData completes with the country
\* request failed and the currency request fulfilled, the countries are the
\* fallback countries and the currencies are the fetched ones; with the
\* currency request failed and the country request fulfilled, the
\* currencies are the fallback currencies and the countries are the fetched
\* ones; with both failed, both are the fallbacks.
C20_FallbackForFailedAxisOnly ==
  [][\A i \in 1..Len(fetches) :
       Completes(i) =>
         LET c == fetches'[i].countries
             m == fetches'[i].currencies
         IN  /\ (c.status = "rejected" /\ m.status = "fulfilled") =>
                  /\ countries' = FallbackCountries
                  /\ currencies' = m.body[1]
             /\ (c.status = "fulfilled" /\ m.status = "rejected") =>
                  /\ currencies' = FallbackCurrencies
                  /\ OptionsOf(countries') = FetchedCountries(c.body[1])
             /\ (c.status = "rejected" /\ m.status = "rejected") =>
                  /\ countries' = FallbackCountries
                  /\ currencies' = FallbackCurrencies]_vars

\* the list is in the order of the display names
SortedByLabel(list) ==
  \A i \in 1..Len(list) : \A j \in 1..Len(list) :
    i < j => localeCompare(list[i].label, list[j].label) <= 0

\* C21, as stated: in every state in which loading has finished, the list
\* of countries exposed to the form is sorted by display name, whether it
\* is the list of the country service or the fallback list.
C21_CountriesSortedOnceLoaded ==
  ~ isLoading => SortedByLabel(countries)

\* C22, as stated: each of the two catalogs is requested at most once, and
\* from a state in which the loading flag is false no step changes the
\* exposed countries or currencies.
C22_LoadedOnce ==
  /\ [](Len(fetches) <= 1)
  /\ [][~ isLoading =>
          (countries' = countries /\ currencies' = currencies)]_vars

\* C23, as stated: in the step in which a request settles, its result is
\* made available to the form, whatever the state of the other request of
\* the call: a rejected country request exposes the fallback countries and
\* a fulfilled one the fetched countries, a rejected currency request
\* exposes the fallback currencies and a fulfilled one the fetched
\* currencies.
C23_SettledResultAvailableAtOnce ==
  [][\A i \in 1..Len(fetches) :
       /\ (fetches[i].countries = Pending /\ fetches'[i].countries # Pending)
            => LET c == fetches'[i].countries
               IN  IF c.status = "rejected"
                     THEN countries' = FallbackCountries
                     ELSE OptionsOf(countries') = FetchedCountries(c.body[1])
       /\ (fetches[i].currencies = Pending /\ fetches'[i].currencies # Pending)
            => LET m == fetches'[i].currencies
               IN  IF m.status = "rejected"
                     THEN currencies' = FallbackCurrencies
                     ELSE currencies' = m.body[1]]_vars

\* C24: while a submission is pending the submit button is disabled; a
\* step that changes a field value during that time issues no POST, leaves
\* the pending request, the submitting flag and the toast as they are; and
\* the pending request is handled by its outcome alone, whatever was
\* edited: a success shows the success message and clears the form, a
\* failure shows the message of the error and keeps the values.
C24_EditsWhilePending ==
  /\ [](isSubmitting => submitDisabled)
  /\ [][(isSubmitting /\ values' # values /\ ~ Settles) =>
          /\ posts' = posts
          /\ submits' = submits
          /\ inflight' = inflight
          /\ isSubmitting'
          /\ toast' = toast]_vars
  /\ [][Settles =>
          /\ ~ isSubmitting'
          /\ toast' # <<>>
          /\ IF toast'[1].type = "success"
               THEN /\ toast'[1].message = MSG_SUCCESS
                    /\ values' = EmptyForm
               ELSE /\ toast'[1].message = errorMessage(toast'[1].error)
                    /\ values' = values]_vars

C24_Witness ==
  /\ isSubmitting
  /\ inflight # <<>>
  /\ posts = 1
  /\ inflight[1].fullName = "Jane Doe"
  /\ values.name = ""
  /\ submitDisabled

\* C25: a change of the country leaves the currency value as it is; the
\* run of the effect for a country outside the OPEC list leaves the
\* currency value as it is, a forced "USD" included, and clears the flag
\* that hides the currency select; so right after a change from an OPEC
\* country to another country the currency is still "USD".
C25_CurrencyKeptWhenLeavingOpec ==
  /\ [][values'.country # values.country =>
          values'.currency = values.currency]_vars
  /\ [][(effectPending /\ ~ effectPending'
           /\ values.country \notin ThirteenCodes) =>
          /\ values'.currency = values.currency
          /\ ~ isOpec'
          /\ FieldEditable("currency")']_vars
  /\ []((isOpec /\ values.country \notin ThirteenCodes)
          => (effectPending /\ values.currency = "USD"))

C25_Witness ==
  /\ ~ effectPending
  /\ ~ isOpec
  /\ values.country = "CD"
  /\ values.currency = "USD"
  /\ FieldEditable("currency")

\* C26: at most one posted request is unsettled in every reachable state,
\* and every step that issues a POST starts from a state without an
\* unsettled request and without the submitting flag.
C26_AtMostOneInFlight ==
  /\ [](Len(inflight) <= 1)
  /\ [][posts' # posts => (inflight = <<>> /\ ~ isSubmitting)]_vars

C26_Witness ==
  /\ Len(inflight) = 1
  /\ isSubmitting
  /\ ~ effectPending
  /\ isValid
  /\ financingSchema(values, today)
  /\ posts = 2

\* the list is the sorted list of a fulfilled country request whose body
\* is a list of named countries
FromCountryService(list) ==
  \E i \in 1..Len(fetches) :
    /\ fetches[i].countries.status = "fulfilled"
    /\ ~ SortThrows(fetches[i].countries.body[1])
    /\ list = sortedCountries(fetches[i].countries.body[1])

\* the currencies are the body of a fulfilled currency request
FromCurrencyService(set) ==
  \E i \in 1..Len(fetches) :
    /\ fetches[i].currencies.status = "fulfilled"
    /\ set = fetches[i].currencies.body[1]

\* C27, as stated: in every state in which the loading flag is false after
\* a load, the countries are the data of the country service or the
\* fallback countries and the currencies are the data of the currency
\* service or the fallback currencies, whatever the outcomes of the
\* requests were.
C27_EachAxisServiceDataOrFallback ==
  (~ isLoading /\ fetches # <<>>) =>
    /\ countries = FallbackCountries \/ FromCountryService(countries)
    /\ currencies = FallbackCurrencies \/ FromCurrencyService(currencies)

\* C28: the step that issues a POST puts in flight the payload built from
\* the field values of that moment, and no later step alters a payload in
\* flight: until it settles it stays what it was, whatever is edited.
C28_PayloadIsSnapshot ==
  /\ [][posts' # posts => inflight' = Append(inflight, apiData(values))]_vars
  /\ [][Len(inflight') >= Len(inflight) =>
          \A i \in 1..Len(inflight) : inflight'[i] = inflight[i]]_vars

C28_Witness ==
  /\ inflight # <<>>
  /\ inflight[1].description = "test"
  /\ values.description = ""
  /\ inflight[1].date = <<2025, 7, 16>>
  /\ values.startDate = <<2025, 7, 17>>
  /\ isSubmitting

\* C29: the validityPeriod of every posted payload is 1, 2 or 3.
C29_ValidityPeriodOneToThree ==
  \A i \in 1..Len(inflight) : inflight[i].validityPeriod \in {1, 2, 3}

C29_Witness ==
  /\ inflight # <<>>
  /\ inflight[1].date = <<2025, 7, 17>>
  /\ values.startDate = <<2025, 7, 17>>
  /\ values.endDate = <<2028, 7, 17>>
  /\ inflight[1] = apiData(values)
  /\ inflight[1].validityPeriod = 3

\* C30: in every state without a pending effect the OPEC flag, on which
\* the rendering of the currency select depends, is true exactly when the
\* selected country is one of the thirteen OPEC codes; and the step in
\* which a submission succeeds leaves the country empty and the flag
\* false.
C30_FlagIsMembershipWhenQuiescent ==
  /\ [](~ effectPending =>
          /\ isOpec <=> values.country \in ThirteenCodes
          /\ FieldEditable("currency") <=> values.country \notin ThirteenCodes)
  /\ [][(Settles /\ toast' # <<>> /\ toast'[1].type = "success") =>
          (values'.country = "" /\ ~ isOpec')]_vars

C30_Witness ==
  /\ ~ effectPending
  /\ ToastIs("success")
  /\ inflight = <<>>
  /\ values.country = ""
  /\ ~ isOpec
  /\ posts = 1

=============================================================================
